---- MODULE Spec2Model ----
(***************************************************************************)
(* Audio landmark fingerprinting and its ingestion pipeline               *)
(* (fingerprint_logic.py, tasks.py, main.py).                              *)
(*                                                                         *)
(* Units.  Times are integers in units of 1/(10*sr) seconds, so that       *)
(* 0.1 s = sr units and a frame is 10*hop_length units.  Frequencies are   *)
(* integers in units of 1/n_fft Hz, so that bin k has frequency k*sr.      *)
(* Peak times and frequencies lie on the frame/bin grid, and no grid       *)
(* difference falls on a window bound (3 frames = 0.139 s, 2 frames =      *)
(* 0.093 s, 19 frames = 0.882 s, 20 frames = 0.929 s; 37 bins = 199.2 Hz,  *)
(* 38 bins = 204.6 Hz), so the exact comparisons below decide as the       *)
(* floating-point comparisons of the code do.                              *)
(***************************************************************************)
EXTENDS Integers, Sequences, FiniteSets, Bags, TLC

\* ------------------------------------------------------------------ bounds
NBins == 2          \* rows of a small spectrogram
NFrames == 9        \* columns of a small spectrogram (wider than one neighborhood radius)
MaxSpots == 2       \* bins of a small spectrogram that differ from the background
MaxBatch == 2       \* largest batch_size (page of the bulk insert, batch of the fallback)
MaxPeaks == 4       \* peaks of a peak list taken from a full-size spectrogram

\* ------------------------------------------------------- program constants
TARGET_SR == 11025
HOP_LENGTH == 512
FULL_ROWS == 1025
neighborhood_size == 15
amplitude_threshold == -50
TARGET_ZONE_START_TIME == TARGET_SR
TARGET_ZONE_TIME_DURATION == 8 * TARGET_SR
TARGET_ZONE_FREQ_WIDTH == 200
TOP_DB == 80
AMIN_DB == -100
CVAL == 0

\* ------------------------------------------------------------------ helpers
SetMax(S) == CHOOSE x \in S : \A y \in S : y <= x
Max2(a, b) == IF a >= b THEN a ELSE b
Min2(a, b) == IF a <= b THEN a ELSE b

\* Magnitude levels of a bin, as 20*log10(max(amin, |D|)): a zero bin is AMIN_DB.
SpotLevels == {-20, -10}
\* Frame and bin indices of the peaks of a full-size (FULL_ROWS rows) spectrogram.
PeakFrames == {0, 2, 3, 19, 20}
PeakBins == {0, 37, 38}
\* PYTHONHASHSEED values of a worker process.
Seeds == {0, 1}

Cells(nb, nf) == (0 .. nb - 1) \X (0 .. nf - 1)

\* A small spectrogram: background level bg, spots a function from some cells to levels.
Matrix(nb, nf, bg, spots) ==
  [nb |-> nb, nf |-> nf,
   lev |-> [c \in Cells(nb, nf) |-> IF c \in DOMAIN spots THEN spots[c] ELSE bg]]

\* librosa.amplitude_to_db(np.abs(D), ref=np.max): dB relative to the largest
\* magnitude, floored at top_db below the largest value.
amplitude_to_db(m) ==
  LET ref == SetMax({m.lev[c] : c \in DOMAIN m.lev})
  IN  [c \in DOMAIN m.lev |-> Max2(m.lev[c] - ref, 0 - TOP_DB)]

\* scipy maximum_filter(S_db, footprint=ones((15,15)), mode='constant'): positions
\* outside the matrix count as cval = 0.0.
maximum_filter(S, nb, nf) ==
  LET R == neighborhood_size \div 2
  IN  [c \in DOMAIN S |->
        LET b == c[1]
            f == c[2]
            inside == {S[<<b2, f2>>] : b2 \in Max2(0, b - R) .. Min2(nb - 1, b + R),
                                      f2 \in Max2(0, f - R) .. Min2(nf - 1, f + R)}
            padded == b - R < 0 \/ b + R > nb - 1 \/ f - R < 0 \/ f + R > nf - 1
        IN  SetMax(inside \cup (IF padded THEN {CVAL} ELSE {}))]

\* The cells of a set as a sequence in row-major order (the order of np.where).
RECURSIVE RowMajor(_)
RowMajor(cs) ==
  IF cs = {} THEN << >>
  ELSE LET c == CHOOSE x \in cs :
                  \A y \in cs : x[1] < y[1] \/ (x[1] = y[1] /\ x[2] <= y[2])
       IN  <<c>> \o RowMajor(cs \ {c})

\* np.where(detected_peaks & (S_db > amplitude_threshold))
DetectedCells(m) ==
  LET S_db == amplitude_to_db(m)
      local_max == maximum_filter(S_db, m.nb, m.nf)
  IN  {c \in DOMAIN S_db : S_db[c] = local_max[c] /\ S_db[c] > amplitude_threshold}

DetectPeaksOf(m) == RowMajor(DetectedCells(m))

\* peaks[0].any(): some row index of the result is non-zero.
PeaksAny(pk) == \E k \in 1 .. Len(pk) : pk[k][1] # 0

N_FFT(rows) == (rows - 1) * 2

\* A conversion that reports the end of the frame's window instead of its centre.
frames_to_time_end(frame, n_fft) == 10 * (frame * HOP_LENGTH + n_fft)
\* librosa.frames_to_time(frames, sr, n_fft): (frame*hop_length + n_fft//2) / sr
frames_to_time(frame, n_fft) == 10 * (frame * HOP_LENGTH + n_fft \div 2)
\* librosa.fft_frequencies(sr, n_fft)[bin]: bin*sr/n_fft
fft_frequencies(bin) == bin * TARGET_SR

\* peaks_list = list(zip(peak_times, peak_freqs_at_peaks))
PeaksList(pk, rows) ==
  [k \in 1 .. Len(pk) |->
     [time |-> frames_to_time(pk[k][2], N_FFT(rows)), freq |-> fft_frequencies(pk[k][1])]]

\* sorted(peaks_list, key=lambda p: p[0]): stable, ascending by time.
RECURSIVE InsertByTime(_, _)
InsertByTime(s, p) ==
  IF s = << >> THEN <<p>>
  ELSE IF s[Len(s)].time <= p.time THEN Append(s, p)
  ELSE Append(InsertByTime(SubSeq(s, 1, Len(s) - 1), p), s[Len(s)])

RECURSIVE SortedFrom(_, _, _)
SortedFrom(pl, k, acc) ==
  IF k > Len(pl) THEN acc ELSE SortedFrom(pl, k + 1, InsertByTime(acc, pl[k]))

Unsorted(pl) == pl
Sorted(pl) == SortedFrom(pl, 1, << >>)

\* The inner scan without the lower time bound and the frequency window.
RECURSIVE InnerScanNoWindow(_, _, _, _)
InnerScanNoWindow(sp, n_fft, i, j) ==
  IF j > Len(sp) THEN << >>
  ELSE IF sp[j].time > sp[i].time + TARGET_ZONE_START_TIME + TARGET_ZONE_TIME_DURATION
       THEN << >>
       ELSE << <<i, j>> >> \o InnerScanNoWindow(sp, n_fft, i, j + 1)

\* The inner scan of the pairing loop for anchor i from candidate j on: the
\* index pairs for which a fingerprint is appended.
RECURSIVE InnerScan(_, _, _, _)
InnerScan(sp, n_fft, i, j) ==
  IF j > Len(sp) THEN << >>
  ELSE LET t_min == sp[i].time + TARGET_ZONE_START_TIME
           t_max == t_min + TARGET_ZONE_TIME_DURATION
           f_min == sp[i].freq - TARGET_ZONE_FREQ_WIDTH * n_fft
           f_max == sp[i].freq + TARGET_ZONE_FREQ_WIDTH * n_fft
       IN  IF sp[j].time > t_max THEN << >>
           ELSE (IF /\ t_min <= sp[j].time /\ sp[j].time <= t_max
                    /\ f_min <= sp[j].freq /\ sp[j].freq <= f_max
                 THEN << <<i, j>> >> ELSE << >>)
                \o InnerScan(sp, n_fft, i, j + 1)

RECURSIVE PairLoop(_, _, _)
PairLoop(sp, n_fft, i) ==
  IF i > Len(sp) THEN << >>
  ELSE InnerScan(sp, n_fft, i, i + 1) \o PairLoop(sp, n_fft, i + 1)

\* hash((anchor_freq, target_freq, time_delta)): CPython hashes a tuple of floats
\* from the values alone; the per-process seed salts str and bytes only.
PyHashSalted(seed, af, tf, dt) == <<seed, af, tf, dt>>
PyHash(seed, af, tf, dt) == <<af, tf, dt>>

\* fingerprints.append((h, anchor_time)) for each emitted pair.
FingerprintsOf(sp, pairs, seed) ==
  [k \in 1 .. Len(pairs) |->
     LET a == sp[pairs[k][1]]
         t == sp[pairs[k][2]]
     IN  [h |-> PyHash(seed, a.freq, t.freq, t.time - a.time), anchor_time |-> a.time]]

\* fingerprint_song(file_path) on a decoded input, in a process with the given
\* hash seed: the peaks found, whether the no-peaks return was taken, the sorted
\* peaks, the emitted index pairs and the returned list.
fingerprint_song(inp, seed) ==
  LET pk == IF inp.kind = "matrix" THEN DetectPeaksOf(inp.m) ELSE RowMajor(inp.cells)
      rows == IF inp.kind = "matrix" THEN inp.m.nb ELSE FULL_ROWS
      n_fft == N_FFT(rows)
      sp == Sorted(PeaksList(pk, rows))
      pairs == PairLoop(sp, n_fft, 1)
  IN  IF ~PeaksAny(pk)
      THEN [peaks |-> pk, early |-> TRUE, sorted_peaks |-> << >>, emitted |-> << >>,
            fingerprints |-> << >>, ran |-> FALSE]
      ELSE [peaks |-> pk, early |-> FALSE, sorted_peaks |-> sp, emitted |-> pairs,
            fingerprints |-> FingerprintsOf(sp, pairs, seed), ran |-> FALSE]

\* ------------------------------------------------------------------- state
VARIABLES
  fin,          \* the decoded input of fingerprint_song
  fres,         \* what the current run of fingerprint_song computed ("none" before)
  hashSeed,     \* hash seed of the process of each run
  runNo,        \* 1: first run; 2: an independent second run over the same input
  firstOut,     \* the list the first run returned
  uniqueTitle,  \* whether the songs table enforces a unique title
  songs,        \* committed rows of cala_mdm_songs
  fprows,       \* committed rows of CALA_MDM_FINGERPRINTS, a bag of <<id, offset, hash>>
  job           \* per ingestion run: its connection, locals and position

sigvars == <<fin, fres, hashSeed, runNo, firstOut>>
dbvars == <<uniqueTitle, songs, fprows, job>>
vars == <<fin, fres, hashSeed, runNo, firstOut, uniqueTitle, songs, fprows, job>>

NoMatrix == Matrix(1, 1, AMIN_DB, << >>)
NoResult == [peaks |-> << >>, early |-> FALSE, sorted_peaks |-> << >>, emitted |-> << >>,
             fingerprints |-> << >>, ran |-> FALSE]

MatrixInput(m) == [kind |-> "matrix", m |-> m, cells |-> {}]
PeaksInput(cs) == [kind |-> "peaks", m |-> NoMatrix, cells |-> cs]

\* The subsets of S of at most k elements.
RECURSIVE SubsetsUpTo(_, _)
SubsetsUpTo(S, k) ==
  IF k = 0 THEN {{}}
  ELSE LET P == SubsetsUpTo(S, k - 1) IN P \cup {x \cup {e} : x \in P, e \in S}

\* The number of frames of the spectrogram of an input; for a peak set, of the
\* shortest spectrogram that holds its peaks.
FramesOf(inp) ==
  IF inp.kind = "matrix" THEN inp.m.nf ELSE SetMax({c[2] : c \in inp.cells} \cup {0}) + 1

\* librosa.stft(y) (center=True) yields 1 + len(y) // hop_length frames: the lengths, in
\* samples, of the shortest and the longest signal with a spectrogram of nf frames.
MinSignalSamples(nf) == (nf - 1) * HOP_LENGTH
MaxSignalSamples(nf) == nf * HOP_LENGTH - 1

\* Peak sets of a full-size spectrogram, at most MaxPeaks peaks.
PeakSets == SubsetsUpTo(PeakBins \X PeakFrames, MaxPeaks)

\* ---------------------------------------------- fingerprint_song, run twice
\* The input is a sparse small spectrogram (a background of zero bins and at most
\* MaxSpots other bins, one frame or NFrames frames long) or the peak set of a
\* full-size spectrogram.
InitFp ==
  /\ \/ \E nf \in {1, NFrames} :
          \E cs \in SubsetsUpTo(Cells(NBins, nf), MaxSpots) :
            \E sp \in [cs -> SpotLevels] :
              fin = MatrixInput(Matrix(NBins, nf, AMIN_DB, sp))
     \/ \E cs \in PeakSets : fin = PeaksInput(cs)
  /\ fres = NoResult
  /\ \E s1 \in Seeds : hashSeed = [k \in 1 .. 2 |-> s1]
  /\ runNo = 1
  /\ firstOut = << >>
  /\ uniqueTitle = FALSE
  /\ songs = {}
  /\ fprows = EmptyBag
  /\ job = << >>

\* One run of fingerprint_song over the input.
RunFingerprintSong ==
  /\ ~fres.ran
  /\ fres' = [fingerprint_song(fin, hashSeed[runNo]) EXCEPT !.ran = TRUE]
  /\ UNCHANGED <<fin, hashSeed, runNo, firstOut, uniqueTitle, songs, fprows, job>>

\* A second, independent process is started on the same input.
StartSecondRun ==
  /\ fres.ran
  /\ runNo = 1
  /\ firstOut' = fres.fingerprints
  /\ runNo' = 2
  /\ \E s2 \in Seeds : hashSeed' = [hashSeed EXCEPT ![2] = s2]
  /\ fres' = NoResult
  /\ UNCHANGED <<fin, uniqueTitle, songs, fprows, job>>

NextFp == RunFingerprintSong \/ StartSecondRun

SpecFp == InitFp /\ [][NextFp]_vars

\* --------------------------------------------------------- ingestion runs
\* The two ingestion runs the properties speak of.
JobIds == {1, 2}
None == 0

Filenames == {[stem |-> "track", ext |-> ".mp3"], [stem |-> "other", ext |-> ".wav"]}
NoFile == [stem |-> "", ext |-> ""]

\* os.path.splitext(original_filename)[0]
FastTitle(fn) == [stem |-> fn.stem, ext |-> ""]
\* os.path.basename(file_path).replace('.mp3', '')
CoreTitle(fn) == IF fn.ext = ".mp3" THEN [stem |-> fn.stem, ext |-> ""] ELSE fn
TitleOf(r) == IF r.kind = "core" THEN CoreTitle(r.filename) ELSE FastTitle(r.filename)

\* What a file holds: bytes that are no audio, a zero-length signal (one all-zero
\* frame of two bins), an all-zero signal of four frames, and a signal of seven frames
\* with three bursts in bin 1.
AudioInputs == {"unreadable", "empty", "silence", "tone"}
Decoded(a) ==
  IF a = "empty" THEN MatrixInput(Matrix(2, 1, AMIN_DB, << >>))
  ELSE IF a = "silence" THEN MatrixInput(Matrix(2, 4, AMIN_DB, << >>))
  ELSE IF a = "tone"
       THEN MatrixInput(Matrix(2, 7, AMIN_DB,
                               [c \in {<<1, 0>>, <<1, 3>>, <<1, 6>>} |-> -10]))
       ELSE MatrixInput(NoMatrix)

\* fingerprint_song(file_path) on a file: librosa.load raises on a file that is no
\* audio, and the except Exception clause turns every exception into the empty list.
FingerprintsOfFile(a) ==
  IF a = "unreadable" THEN << >> ELSE fingerprint_song(Decoded(a), 0).fingerprints

\* fingerprint_tuples = [(song_id, offset_time, hash_value) for ...]
FingerprintTuplesNoSong(song_id, fp) ==
  [k \in 1 .. Len(fp) |-> <<None, fp[k].anchor_time, fp[k].h>>]
FingerprintTuples(song_id, fp) ==
  [k \in 1 .. Len(fp) |-> <<song_id, fp[k].anchor_time, fp[k].h>>]

\* What process_fingerprints makes of the value insert_song_and_fingerprints_fast
\* returned: a truthy song_id is "success", None raises and the task is failed.
OutcomeOf(ret) == IF ret # None THEN "success" ELSE "failed"

RECURSIVE SeqToBag(_)
SeqToBag(sq) == IF sq = << >> THEN EmptyBag ELSE SetToBag({Head(sq)}) (+) SeqToBag(Tail(sq))

\* The committed fingerprint rows of one song, as a bag.
RowsOf(id) == [x \in {y \in DOMAIN fprows : y[1] = id} |-> fprows[x]]
CountOf(id) == BagCardinality(RowsOf(id))

NewJob ==
  [kind |-> "none", filename |-> NoFile, audio |-> "none", pc |-> "start",
   conn |-> "none", tx |-> "idle", cursor |-> "none", pend |-> << >>,
   song_id |-> None, tuples |-> << >>, batch_size |-> 0, i |-> 0,
   ret |-> None, status |-> "none", audioTmp |-> "none", csvTmp |-> "none",
   \* history of the run
   found |-> FALSE, created |-> FALSE, fault |-> FALSE, fastFail |-> "none",
   bulkFailed |-> FALSE, fallbackRan |-> FALSE, dupAtRun |-> FALSE,
   insertFailed |-> FALSE, batchFailed |-> FALSE, raised |-> FALSE,
   after |-> {}, rowsAtEnd |-> 0]

Init ==
  /\ fin = PeaksInput({})
  /\ fres = NoResult
  /\ hashSeed = [k \in 1 .. 2 |-> 0]
  /\ runNo = 1
  /\ firstOut = << >>
  /\ uniqueTitle \in BOOLEAN
  /\ songs = {}
  /\ fprows = EmptyBag
  /\ job = [j \in JobIds |-> NewJob]

Finished == {k \in JobIds : job[k].pc = "done"}
\* A dedupe check that never finds a row.
MatchingNone(t) == {}
\* A dedupe check that does not look at the title.
MatchingAny(t) == songs
\* The committed rows WHERE szsongtitle = t.
Matching(t) == {s \in songs : s.title = t}

\* except psycopg2.Error (and, in insert_song_and_fingerprints, except Exception):
\* conn.rollback(), cursor.close(), return None.
Handler(r) ==
  [r EXCEPT !.pend = << >>, !.tx = "idle", !.cursor = "closed", !.ret = None,
            !.pc = "returned"]

\* conn.rollback(): the rows of the open transaction that end up committed.
RollbackKeeps(pend) == pend
Rollback(pend) == << >>

\* if result: cursor.close(); return result[0]
SkipTopUp(r, s) ==
  [r EXCEPT !.found = TRUE, !.song_id = s.id, !.tx = "open", !.pc = "fingerprint"]
SkipResult(r, s) ==
  [r EXCEPT !.ret = s.id, !.found = TRUE, !.tx = "open", !.cursor = "closed",
            !.pc = "returned"]

\* The INSERT of the Song row or its commit raised psycopg2.Error: the handler runs.
SongInsertIgnored(j, r, violation) ==
  [r EXCEPT !.song_id = j, !.insertFailed = TRUE, !.tx = "idle", !.pc = "fingerprint"]
SongInsertFailed(j, r, violation) ==
  [Handler(r) EXCEPT !.fault = ~violation, !.insertFailed = TRUE]

\* A caller runs insert_song_and_fingerprints_fast(conn, file_path, original_filename)
\* on a connection of its own.
StartFast(j, fn) ==
  /\ job[j].pc = "start"
  /\ job' = [job EXCEPT ![j] = [@ EXCEPT !.kind = "fast", !.filename = fn,
                                        !.conn = "open", !.pc = "select",
                                        !.after = Finished]]
  /\ UNCHANGED <<sigvars, uniqueTitle, songs, fprows>>

\* __main__: conn = connect_to_db(); insert_song_and_fingerprints(conn, file_path).
StartCore(j, fn) ==
  /\ job[j].pc = "start"
  /\ \E connected \in BOOLEAN :
       job' = [job EXCEPT ![j] =
                 IF connected
                 THEN [@ EXCEPT !.kind = "core", !.filename = fn, !.conn = "open",
                                !.pc = "select", !.after = Finished]
                 ELSE [@ EXCEPT !.kind = "core", !.filename = fn, !.pc = "done",
                                !.after = Finished]]
  /\ UNCHANGED <<sigvars, uniqueTitle, songs, fprows>>

\* The dedupe check: SELECT szsongid ... WHERE szsongtitle = %s; fetchone().
SelectSong(j) ==
  LET r == job[j]
      match == Matching(TitleOf(r))
  IN  /\ r.pc = "select"
      /\ \/ job' = [job EXCEPT ![j] = [Handler(r) EXCEPT !.fault = TRUE]]
         \/ \E s \in match : job' = [job EXCEPT ![j] = SkipResult(r, s)]
         \/ /\ match = {}
            /\ job' = [job EXCEPT ![j] = [r EXCEPT !.tx = "open", !.cursor = "open",
                                                  !.pc = "insert"]]
      /\ UNCHANGED <<sigvars, uniqueTitle, songs, fprows>>

\* song_id = generate_song_id(); INSERT INTO cala_mdm_songs ...; conn.commit().
\* Each run generates an id of its own (a uuid part): the run's number stands for it.
InsertSong(j) ==
  LET r == job[j]
      t == TitleOf(r)
      violation == uniqueTitle /\ Matching(t) # {}
  IN  /\ r.pc = "insert"
      /\ \E fail \in BOOLEAN :
           IF fail \/ violation
           THEN /\ job' = [job EXCEPT ![j] = SongInsertFailed(j, r, violation)]
                /\ UNCHANGED songs
           ELSE /\ songs' = songs \cup {[id |-> j, title |-> t]}
                /\ job' = [job EXCEPT ![j] = [r EXCEPT !.song_id = j, !.created = TRUE,
                                                      !.tx = "idle", !.pc = "fingerprint"]]
      /\ UNCHANGED <<sigvars, uniqueTitle, fprows>>

\* fingerprints = fingerprint_song(file_path); if not fingerprints: return song_id;
\* fingerprint_tuples = [(song_id, offset_time, hash_value) ...].  The fast function is
\* called with some batch_size, the page size of its bulk insert.
Fingerprint(j) ==
  LET r == job[j]
  IN  /\ r.pc = "fingerprint"
      /\ \E a \in AudioInputs, bs \in 1 .. MaxBatch :
           LET fp == FingerprintsOfFile(a)
               tuples == FingerprintTuples(r.song_id, fp)
           IN  /\ (r.kind = "core" \/ fp = << >>) => bs = 1
               /\ job' = [job EXCEPT ![j] =
                     IF fp = << >>
                     THEN [r EXCEPT !.audio = a, !.cursor = "closed", !.ret = r.song_id,
                                    !.pc = "returned"]
                     ELSE IF r.kind = "fast"
                          THEN [r EXCEPT !.audio = a, !.tuples = tuples,
                                         !.batch_size = bs, !.i = 0, !.pc = "bulk"]
                          ELSE [r EXCEPT !.audio = a, !.tuples = tuples, !.pc = "csv"]]
      /\ UNCHANGED <<sigvars, uniqueTitle, songs, fprows>>

\* insert_song_and_fingerprints_fast: execute_values(..., page_size=batch_size) sends
\* one INSERT per page of batch_size tuples, all in the transaction that is open.  A
\* page may raise psycopg2.Error (the handler runs) or another exception, which the
\* function does not catch: it reaches the caller with the transaction still open.
FastPage(j) ==
  LET r == job[j]
      last == Min2(r.i + r.batch_size, Len(r.tuples))
      page == SubSeq(r.tuples, r.i + 1, last)
  IN  /\ r.pc = "bulk"
      /\ \/ /\ job' = [job EXCEPT ![j] =
                        [r EXCEPT !.pend = r.pend \o page, !.tx = "open", !.i = last,
                                  !.pc = IF last >= Len(r.tuples) THEN "commit"
                                         ELSE "bulk"]]
            /\ UNCHANGED fprows
         \/ /\ job' = [job EXCEPT ![j] = [Handler(r) EXCEPT !.fault = TRUE,
                                                        !.bulkFailed = TRUE]]
            /\ fprows' = fprows (+) SeqToBag(Rollback(r.pend))
         \/ /\ job' = [job EXCEPT ![j] = [r EXCEPT !.fault = TRUE, !.raised = TRUE,
                                                  !.ret = None, !.pc = "returned"]]
            /\ UNCHANGED fprows
      /\ UNCHANGED <<sigvars, uniqueTitle, songs>>

\* insert_song_and_fingerprints_fast: conn.commit(); cursor.close(); return song_id.
FastCommit(j) ==
  LET r == job[j]
  IN  /\ r.pc = "commit"
      /\ \E fail \in BOOLEAN :
           IF fail
           THEN /\ job' = [job EXCEPT ![j] = [Handler(r) EXCEPT !.fault = TRUE,
                                                          !.bulkFailed = TRUE]]
                /\ fprows' = fprows (+) SeqToBag(Rollback(r.pend))
           ELSE /\ fprows' = fprows (+) SeqToBag(r.pend)
                /\ job' = [job EXCEPT ![j] = [r EXCEPT !.pend = << >>, !.tx = "idle",
                                                      !.cursor = "closed",
                                                      !.ret = r.song_id,
                                                      !.pc = "returned"]]
      /\ UNCHANGED <<sigvars, uniqueTitle, songs>>

\* except Exception as copy_error: the batched-insert fallback is entered.
EnterFallback(r, cause, bs) ==
  [r EXCEPT !.fastFail = cause, !.fallbackRan = TRUE, !.batch_size = bs, !.i = 0,
            !.pc = "batch"]

\* insert_song_and_fingerprints: the rows are written to a temporary CSV file
\* (delete=False); a failed write leaves the file behind.
CoreCsv(j) ==
  LET r == job[j]
  IN  /\ r.pc = "csv"
      /\ \/ job' = [job EXCEPT ![j] = [r EXCEPT !.csvTmp = "exists", !.pc = "copy"]]
         \/ \E bs \in 1 .. MaxBatch :
              job' = [job EXCEPT ![j] =
                        [EnterFallback(r, "csv", bs) EXCEPT !.csvTmp = "exists"]]
      /\ UNCHANGED <<sigvars, uniqueTitle, songs, fprows>>

\* with open(temp_filename) as f: cursor.copy_from(f, ...).  A failed COPY leaves the
\* transaction aborted; a failure to open the file does not reach the server.
CoreCopy(j) ==
  LET r == job[j]
  IN  /\ r.pc = "copy"
      /\ \/ job' = [job EXCEPT ![j] = [r EXCEPT !.pend = r.tuples, !.tx = "open",
                                               !.pc = "unlink"]]
         \/ \E bs \in 1 .. MaxBatch, server \in BOOLEAN :
              job' = [job EXCEPT ![j] =
                        [EnterFallback(r, "copy", bs) EXCEPT
                           !.tx = IF server THEN "aborted" ELSE r.tx]]
      /\ UNCHANGED <<sigvars, uniqueTitle, songs, fprows>>

\* os.unlink(temp_filename)
CoreUnlink(j) ==
  LET r == job[j]
  IN  /\ r.pc = "unlink"
      /\ \/ job' = [job EXCEPT ![j] = [r EXCEPT !.csvTmp = "removed", !.pc = "final"]]
         \/ \E bs \in 1 .. MaxBatch :
              job' = [job EXCEPT ![j] = EnterFallback(r, "unlink", bs)]
      /\ UNCHANGED <<sigvars, uniqueTitle, songs, fprows>>

\* One turn of the fallback loop: cursor.executemany(query, batch); conn.commit().
\* A statement on an aborted transaction raises psycopg2.Error.
CoreBatch(j) ==
  LET r == job[j]
      last == Min2(r.i + r.batch_size, Len(r.tuples))
      batch == SubSeq(r.tuples, r.i + 1, last)
  IN  /\ r.pc = "batch"
      /\ \E fail \in BOOLEAN :
           IF r.tx = "aborted" \/ fail
           THEN /\ job' = [job EXCEPT ![j] =
                             [Handler(r) EXCEPT !.fault = (r.fault \/ r.tx # "aborted"),
                                                !.batchFailed = TRUE]]
                /\ fprows' = fprows (+) SeqToBag(Rollback(r.pend))
           ELSE /\ fprows' = fprows (+) SeqToBag(r.pend) (+) SeqToBag(batch)
                /\ job' = [job EXCEPT ![j] =
                             [r EXCEPT !.pend = << >>, !.tx = "idle", !.i = last,
                                       !.pc = IF last >= Len(r.tuples) THEN "final"
                                              ELSE "batch"]]
      /\ UNCHANGED <<sigvars, uniqueTitle, songs>>

\* conn.commit()  # Final commit; cursor.close(); return song_id.
CoreFinal(j) ==
  LET r == job[j]
  IN  /\ r.pc = "final"
      /\ \E fail \in BOOLEAN :
           IF fail
           THEN /\ job' = [job EXCEPT ![j] = [Handler(r) EXCEPT !.fault = TRUE]]
                /\ fprows' = fprows (+) SeqToBag(Rollback(r.pend))
           ELSE /\ fprows' = fprows (+) SeqToBag(r.pend)
                /\ job' = [job EXCEPT ![j] = [r EXCEPT !.pend = << >>, !.tx = "idle",
                                                      !.cursor = "closed",
                                                      !.ret = r.song_id,
                                                      !.pc = "returned"]]
      /\ UNCHANGED <<sigvars, uniqueTitle, songs>>

\* The caller closes the connection: what was not committed is discarded.  The
\* locals of the run are gone; its result and the file it was given stay with the caller.
CloseConn(j) ==
  LET r == job[j]
  IN  /\ r.pc = "returned"
      /\ job' = [job EXCEPT ![j] = [NewJob EXCEPT !.kind = r.kind,
                                                 !.filename = r.filename,
                                                 !.audio = r.audio,
                                                 !.conn = "closed", !.pc = "done",
                                                 !.ret = r.ret, !.fault = r.fault,
                                                 !.after = r.after,
                                                 !.rowsAtEnd = CountOf(r.ret)]]
      /\ UNCHANGED <<sigvars, uniqueTitle, songs, fprows>>

\* tasks.py process_fingerprints: download_file_from_url either fails in requests.get
\* (no file yet) or creates the temporary file with mkstemp and then raises NameError
\* at shutil.copyfileobj (tasks.py imports no shutil); temp_local_path stays None, the
\* exception is re-raised and the finally block has nothing to close or remove.
TaskRun(j, fn) ==
  /\ job[j].pc = "start"
  /\ \E made \in BOOLEAN :
       job' = [job EXCEPT ![j] =
                 [@ EXCEPT !.kind = "task", !.filename = fn, !.status = "failed",
                           !.audioTmp = IF made THEN "exists" ELSE "none",
                           !.after = Finished,
                           !.dupAtRun = (Matching(FastTitle(fn)) # {}),
                           !.pc = "done"]]
  /\ UNCHANGED <<sigvars, uniqueTitle, songs, fprows>>

\* main.py create_upload_file: the upload, the download or the connection may fail;
\* otherwise insert_song_and_fingerprints_fast(conn, temp_local_path) is called without
\* original_filename and raises TypeError.  Every exception becomes HTTPException(500);
\* the finally block closes the connection and removes the file it knows of.
UploadRun(j, fn) ==
  /\ job[j].pc = "start"
  /\ \E at \in {"upload", "get", "write", "connect", "call"} :
       job' = [job EXCEPT ![j] =
                 [@ EXCEPT !.kind = "upload", !.filename = fn, !.status = "failed",
                           !.audioTmp = IF at \in {"upload", "get"} THEN "none"
                                        ELSE IF at = "write" THEN "exists"
                                        ELSE "removed",
                           !.conn = IF at = "call" THEN "closed" ELSE "none",
                           !.after = Finished,
                           !.dupAtRun = (Matching(FastTitle(fn)) # {}),
                           !.pc = "done"]]
  /\ UNCHANGED <<sigvars, uniqueTitle, songs, fprows>>

Next ==
  \E j \in JobIds :
    \/ \E fn \in Filenames : StartFast(j, fn)
    \/ \E fn \in Filenames : StartCore(j, fn)
    \/ \E fn \in Filenames : TaskRun(j, fn)
    \/ \E fn \in Filenames : UploadRun(j, fn)
    \/ SelectSong(j)
    \/ InsertSong(j)
    \/ Fingerprint(j)
    \/ FastPage(j)
    \/ FastCommit(j)
    \/ CoreCsv(j)
    \/ CoreCopy(j)
    \/ CoreUnlink(j)
    \/ CoreBatch(j)
    \/ CoreFinal(j)
    \/ CloseConn(j)

Spec == Init /\ [][Next]_vars

\* ------------------------------------------------------------------ claims
ToSet(sq) == {sq[k] : k \in 1 .. Len(sq)}
CurRows == IF fin.kind = "matrix" THEN fin.m.nb ELSE FULL_ROWS
\* The target zone as the specification words it, in the units of the model.
ZoneTimeLow == TARGET_SR
ZoneTimeHigh == 9 * TARGET_SR
ZoneFreqWidth == 200 * N_FFT(CurRows)
InZone(a, t) ==
  /\ a.time + ZoneTimeLow <= t.time
  /\ t.time <= a.time + ZoneTimeHigh
  /\ a.freq - ZoneFreqWidth <= t.freq
  /\ t.freq <= a.freq + ZoneFreqWidth
PairingRan == fres.ran /\ ~fres.early

\* C6  Every fingerprint the pairing loop emits pairs an anchor with a candidate that is
\* later in the sorted peak list, 0.1 s to 0.9 s after the anchor and within 200 Hz of
\* it; the returned list has one entry per such emission and carries the anchor's time.
C6_PairingMonotonicity ==
  PairingRan =>
    /\ Len(fres.fingerprints) = Len(fres.emitted)
    /\ \A k \in 1 .. Len(fres.emitted) :
         LET i == fres.emitted[k][1]
             j == fres.emitted[k][2]
         IN  /\ i \in 1 .. Len(fres.sorted_peaks)
             /\ j \in 1 .. Len(fres.sorted_peaks)
             /\ j > i
             /\ InZone(fres.sorted_peaks[i], fres.sorted_peaks[j])
             /\ fres.fingerprints[k].anchor_time = fres.sorted_peaks[i].time

\* C6 witness: a fingerprint was emitted while a later peak of the same anchor was
\* rejected for its time and another for its frequency.
C6_Witness ==
  /\ PairingRan
  /\ fres.emitted # << >>
  /\ \E i, j \in 1 .. Len(fres.sorted_peaks) :
       /\ j > i
       /\ fres.sorted_peaks[j].time < fres.sorted_peaks[i].time + ZoneTimeLow
  /\ \E i, j \in 1 .. Len(fres.sorted_peaks) :
       /\ j > i
       /\ fres.sorted_peaks[j].time >= fres.sorted_peaks[i].time + ZoneTimeLow
       /\ fres.sorted_peaks[j].time <= fres.sorted_peaks[i].time + ZoneTimeHigh
       /\ fres.sorted_peaks[j].freq > fres.sorted_peaks[i].freq + ZoneFreqWidth

IsTimeSorted(sp) == \A i, j \in 1 .. Len(sp) : i < j => sp[i].time <= sp[j].time
QualifyingPairs(sp) ==
  {p \in (1 .. Len(sp)) \X (1 .. Len(sp)) : p[1] < p[2] /\ InZone(sp[p[1]], sp[p[2]])}

\* C7  The peak list scanned is in ascending time order and the emitted fingerprints
\* correspond one-to-one to exactly the index pairs (i, j), j > i, whose candidate j is
\* inside the time and frequency windows of anchor i: the early exit skips none.
C7_PairingComplete ==
  PairingRan =>
    /\ IsTimeSorted(fres.sorted_peaks)
    /\ ToSet(fres.emitted) = QualifyingPairs(fres.sorted_peaks)
    /\ Cardinality(ToSet(fres.emitted)) = Len(fres.emitted)
    /\ Len(fres.fingerprints) = Len(fres.emitted)

\* C7 witness: two peaks share a time, the scan of some anchor stopped at a candidate
\* past the window, and a candidate that is not the anchor's successor qualified.
C7_Witness ==
  /\ PairingRan
  /\ \E i, j \in 1 .. Len(fres.sorted_peaks) :
       i < j /\ fres.sorted_peaks[i].time = fres.sorted_peaks[j].time
  /\ \E i, j \in 1 .. Len(fres.sorted_peaks) :
       i < j /\ fres.sorted_peaks[j].time > fres.sorted_peaks[i].time + ZoneTimeHigh
  /\ \E k \in 1 .. Len(fres.emitted) : fres.emitted[k][2] > fres.emitted[k][1] + 1

\* The bins that are the maximum of the bins of the matrix within their 15x15
\* neighborhood and above the floor.
IntendedPeaks(m) ==
  LET S_db == amplitude_to_db(m)
      R == neighborhood_size \div 2
  IN  {c \in DOMAIN S_db :
         /\ S_db[c] > amplitude_threshold
         /\ \A d \in DOMAIN S_db :
              (d[1] - c[1] \in (0 - R) .. R /\ d[2] - c[2] \in (0 - R) .. R)
                => S_db[d] <= S_db[c]}

\* C8  The peak set is exactly the set of bins that are the maximum of the existing
\* bins of their 15x15 neighborhood and above the -50 dB floor, border bins included.
C8_PeakSetExact ==
  (fres.ran /\ fin.kind = "matrix") => ToSet(fres.peaks) = IntendedPeaks(fin.m)

C17_AnchorTimeInRange ==
  fres.ran =>
    \A k \in 1 .. Len(fres.fingerprints) :
      \A samples \in {MinSignalSamples(FramesOf(fin)), MaxSignalSamples(FramesOf(fin))} :
        /\ 0 <= fres.fingerprints[k].anchor_time
        /\ fres.fingerprints[k].anchor_time < 10 * samples

\* C17 witness: a full-size spectrogram yields a fingerprint whose anchor lies three
\* frames before the last frame, one hop short of the end of the shortest signal.
C17_Witness ==
  /\ fres.ran
  /\ fin.kind = "peaks"
  /\ \E k \in 1 .. Len(fres.fingerprints) :
       fres.fingerprints[k].anchor_time + 10 * HOP_LENGTH
         = 10 * MinSignalSamples(FramesOf(fin))

\* C1  When insert_song_and_fingerprints_fast runs twice in sequence for the same
\* filename, the first run returns a songId and the second meets no storage error,
\* the second run returns the same songId, there is exactly one Song row of that
\* title, and the song has as many fingerprint rows after the second run as after
\* the first.
C1_IdempotentIngestion ==
  \A a, b \in JobIds :
    ( /\ job[a].kind = "fast" /\ job[b].kind = "fast"
      /\ job[b].pc = "done"
      /\ a \in job[b].after
      /\ job[a].filename = job[b].filename
      /\ job[a].ret # None
      /\ ~job[b].fault )
    => /\ job[b].ret = job[a].ret
       /\ Cardinality(Matching(FastTitle(job[a].filename))) = 1
       /\ job[b].rowsAtEnd = job[a].rowsAtEnd
       /\ CountOf(job[a].ret) = job[a].rowsAtEnd

\* C1 witness: the second of two sequential runs for one filename is over and the
\* first had persisted fingerprints.
C1_Witness ==
  \E a, b \in JobIds :
    /\ job[a].kind = "fast" /\ job[b].kind = "fast"
    /\ job[b].pc = "done"
    /\ a \in job[b].after
    /\ job[a].filename = job[b].filename
    /\ job[a].ret # None
    /\ ~job[b].fault
    /\ job[a].rowsAtEnd >= 2

\* C2  A job of either caller (the queue task, the upload endpoint) whose title already
\* has a Song row reports status "skipped".
C2_DuplicateReportsSkipped ==
  \A j \in JobIds :
    (job[j].kind \in {"task", "upload"} /\ job[j].pc = "done" /\ job[j].dupAtRun)
      => job[j].status = "skipped"

\* C3  No two committed Song rows carry the same title.
C3_OneSongPerTitle ==
  \A s1, s2 \in songs : s1.title = s2.title => s1 = s2

\* C4  In insert_song_and_fingerprints, when the COPY fails and nothing else goes wrong,
\* the fallback completes: the function returns the songId and the committed rows of
\* the song are exactly the bag of the fingerprint tuples.
C4_FallbackEquivalent ==
  \A j \in JobIds :
    ( /\ job[j].kind = "core"
      /\ job[j].pc = "returned"
      /\ job[j].fastFail = "copy"
      /\ ~job[j].fault )
    => /\ job[j].ret = job[j].song_id
       /\ RowsOf(job[j].song_id) = SeqToBag(job[j].tuples)

\* C5  In insert_song_and_fingerprints_fast, a failed bulk write of the fingerprints is
\* followed by the batched-insert fallback.
C5_FallbackAttempted ==
  \A j \in JobIds :
    (job[j].kind = "fast" /\ job[j].pc = "returned" /\ job[j].bulkFailed)
      => job[j].fallbackRan

\* C10  A run of insert_song_and_fingerprints_fast over a zero-length or all-silent
\* signal that created its Song row, with no storage error, returns the songId and
\* leaves the song without fingerprint rows.
C10_SilenceHasNoFingerprints ==
  \A j \in JobIds :
    ( /\ job[j].kind = "fast"
      /\ job[j].pc = "returned"
      /\ job[j].audio \in {"empty", "silence"}
      /\ job[j].created
      /\ ~job[j].fault )
    => /\ job[j].ret = job[j].song_id
       /\ \E s \in songs : s.id = job[j].song_id
       /\ CountOf(job[j].song_id) = 0

IngestionKinds == {"fast", "core"}
HasSong(id) == \E s \in songs : s.id = id

\* C11  A run of insert_song_and_fingerprints_fast over a file that cannot be decoded
\* ends in failure: the value it returns is one process_fingerprints reports as a failed
\* job, never as a success.
C11_DecodeFailureFails ==
  \A j \in JobIds :
    ( /\ job[j].kind = "fast"
      /\ job[j].pc \in {"returned", "done"}
      /\ job[j].audio = "unreadable" )
    => OutcomeOf(job[j].ret) = "failed"

\* C12  When a run of process_fingerprints has terminated, the temporary file it created
\* for the downloaded audio no longer exists.
C12_TempAudioRemoved ==
  \A j \in JobIds :
    (job[j].kind = "task" /\ job[j].pc = "done") => job[j].audioTmp # "exists"

\* C13  A run whose INSERT or commit of the Song row failed has returned None without
\* generating or writing fingerprints, and storage holds no Song row and no fingerprint
\* row of that run.
C13_SongInsertFailurePersistsNothing ==
  \A j \in JobIds :
    (job[j].kind \in IngestionKinds /\ job[j].insertFailed)
    => /\ job[j].pc = "returned"
       /\ job[j].ret = None
       /\ job[j].audio = "none"
       /\ job[j].tuples = << >>
       /\ ~HasSong(j)
       /\ CountOf(j) = 0

\* C13 witness: a run returned after its Song insert failed for a storage error while
\* the other run had committed a Song row and fingerprint rows.
C13_Witness ==
  \E j \in JobIds :
    /\ job[j].insertFailed
    /\ job[j].fault
    /\ job[j].pc = "returned"
    /\ songs # {}
    /\ fprows # EmptyBag

\* C14  Every committed fingerprint row carries the id of a committed Song row.
C14_FingerprintsReferenceSongs ==
  \A x \in BagToSet(fprows) : HasSong(x[1])

\* C14 witness: both runs have committed fingerprint rows and one of them, in the core
\* function, has just failed in a batch of the fallback after committing an earlier one.
C14_Witness ==
  \E a, b \in JobIds :
    /\ a # b
    /\ CountOf(a) > 0
    /\ CountOf(b) > 0
    /\ job[b].kind = "core"
    /\ job[b].batchFailed

DifferentTitles(a, b) ==
  /\ a # b
  /\ job[a].kind \in IngestionKinds
  /\ job[b].kind \in IngestionKinds
  /\ TitleOf(job[a]) # TitleOf(job[b])

\* A run whose title differs from the other run's behaves as it does alone: its dedupe
\* check finds nothing, its insert meets no title conflict, it returns None or its own
\* id, and the Song rows of its title are its own.
RunsAsAlone(a) ==
  /\ ~job[a].found
  /\ job[a].insertFailed => job[a].fault
  /\ job[a].ret \in {None, a}
  /\ \A s \in songs : s.title = TitleOf(job[a]) => s.id = a

\* A step of run a leaves the record, the Song row and the fingerprint rows of run b
\* as they are.
LeavesAlone(a, b) ==
  (job[a]' # job[a]) =>
    /\ job[b]' = job[b]
    /\ {s \in songs : s.id = b}' = {s \in songs : s.id = b}
    /\ RowsOf(b)' = RowsOf(b)

\* C15  Two ingestion runs with different titles, each on its own connection and in any
\* interleaving, do not interact: each behaves as it does alone, and no step of one
\* changes the record or the committed rows of the other.
C15_IndependentJobs ==
  /\ [](\A a, b \in JobIds : DifferentTitles(a, b) => RunsAsAlone(a))
  /\ [][\A a, b \in JobIds : DifferentTitles(a, b)' => LeavesAlone(a, b)]_vars

\* C15 witness: two runs with different titles overlapped in time, and each returned
\* its own id and committed fingerprint rows.
C15_Witness ==
  \E a, b \in JobIds :
    /\ DifferentTitles(a, b)
    /\ job[a].pc = "done" /\ job[b].pc = "done"
    /\ a \notin job[b].after /\ b \notin job[a].after
    /\ job[a].ret = a /\ job[b].ret = b
    /\ CountOf(a) > 0 /\ CountOf(b) > 0

\* C16  When insert_song_and_fingerprints returns, the temporary CSV file it created is
\* deleted and the cursor it opened is closed.
C16_NoLeakInCore ==
  \A j \in JobIds :
    (job[j].kind = "core" /\ job[j].pc = "returned")
    => /\ job[j].csvTmp # "exists"
       /\ job[j].cursor # "open"

\* C18  When the fallback of insert_song_and_fingerprints fails in batch k, the Song row
\* is committed and the committed fingerprint rows of the song are exactly the first
\* (k-1)*batch_size tuples.
C18_PartialCommit ==
  \A j \in JobIds :
    (job[j].kind = "core" /\ job[j].pc = "returned" /\ job[j].batchFailed)
    => /\ HasSong(job[j].song_id)
       /\ RowsOf(job[j].song_id) = SeqToBag(SubSeq(job[j].tuples, 1, job[j].i))

\* C19  No step of a run that found an existing Song row for its title changes the Song
\* table or the fingerprint table.
C19_SkipChangesNothing ==
  [][\A j \in JobIds :
       (job[j]' # job[j] /\ (job[j].found \/ job[j].found'))
         => (songs' = songs /\ fprows' = fprows)]_vars

\* C19 witness: a run found the Song row of an earlier run that had failed with one of
\* its fingerprint rows committed, and returned that row's id.
C19_Witness ==
  \E a, b \in JobIds :
    /\ a # b
    /\ job[a].pc = "done"
    /\ job[a].ret = None
    /\ a \in job[b].after
    /\ job[b].found
    /\ job[b].pc = "returned"
    /\ job[b].ret = a
    /\ CountOf(a) = 1

\* C20  Once the connection of a run of insert_song_and_fingerprints_fast that created a
\* Song row is closed, the committed fingerprint rows of the song are none or the
\* complete list the run generated.
C20_FastAllOrNothing ==
  \A j \in JobIds :
    (job[j].kind = "fast" /\ job[j].pc = "done" /\ HasSong(j))
    => \/ CountOf(j) = 0
       \/ RowsOf(j) = SeqToBag(FingerprintTuples(j, FingerprintsOfFile(job[j].audio)))

\* C20 witness: a run that created its Song row and generated several fingerprints
\* failed and its connection is closed; another run committed its complete list.
C20_Witness ==
  \E a, b \in JobIds :
    /\ a # b
    /\ job[a].kind = "fast" /\ job[a].pc = "done" /\ HasSong(a)
    /\ job[a].fault /\ job[a].ret = None
    /\ Len(FingerprintsOfFile(job[a].audio)) >= 2
    /\ job[b].kind = "fast" /\ job[b].pc = "done" /\ job[b].ret = b
    /\ CountOf(b) >= 2

\* The list the pairing pass yields for the peaks the current run found.
PairingYield ==
  LET n_fft == N_FFT(CurRows)
      sp == Sorted(PeaksList(fres.peaks, CurRows))
  IN  FingerprintsOf(sp, PairLoop(sp, n_fft, 1), hashSeed[runNo])

\* C21  fingerprint_song takes its no-peaks return exactly when no bin qualifies as a
\* peak; with one peak or more, peaks in frequency bin 0 only included, it returns the
\* fingerprints the pairing pass yields for those peaks.
C21_EarlyReturnIffNoPeaks ==
  fres.ran =>
    /\ fres.early <=> (fres.peaks = << >>)
    /\ fres.fingerprints = PairingYield

====
